---- MODULE Spec2Model ----
(***************************************************************************)
(* Model of exporter.py: the Tk front end (Start / Cancel / queue drain)   *)
(* and the background export worker in its two variants (ADB and local).   *)
(* The worker and the UI thread interleave; they share the event queue,    *)
(* the cancellation event and the three counters.                          *)
(***************************************************************************)
EXTENDS Integers, Sequences, FiniteSets, Bags, TLC

(***************************************************************************)
(* Bounds of the model                                                     *)
(***************************************************************************)
\* number of Start clicks that are accepted (runs) in one behaviour
MaxRuns == 2
\* number of Cancel clicks per run
MaxCancelClicks == 1
\* number of backend calls that fail in one run
MaxFaults == 1
\* the worker is scheduled only while at most this many events wait in the queue
MaxBacklog == 1
\* how many of the subfolder check boxes the user may tick (the first k)
MaxChosen == 2
\* highest "__dup" index a destination holds before unique_destination_path is
\* applied on its own
MaxDup == 3
\* directories the walk of _estimate_total_files_local visits when it is
\* applied on its own
MaxWalkDirs == 3

(***************************************************************************)
(* Program constants                                                       *)
(***************************************************************************)
\* end_dt = parsed date .replace(hour=23, minute=59, second=59)
EndOfDaySecond == 86399
\* cap of the local estimate walk
EstimateCap == 500000

DEFAULT_SUBFOLDERS ==
  << "WhatsApp Images", "WhatsApp Video", "WhatsApp Documents",
     "WhatsApp Audio", "WhatsApp Voice Notes", "Animated Gifs" >>

\* the two well-known remote media roots, in probing order
Candidates == << "/storage/emulated/0/Android/media/com.whatsapp/WhatsApp/Media",
                 "/storage/emulated/0/WhatsApp/Media" >>

(***************************************************************************)
(* Instants: <<day, second of day, microsecond>>, compared as datetimes    *)
(***************************************************************************)
DtLeq(a, b) ==
  \/ a[1] < b[1]
  \/ a[1] = b[1] /\ a[2] < b[2]
  \/ a[1] = b[1] /\ a[2] = b[2] /\ a[3] <= b[3]

DtLess(a, b) == DtLeq(a, b) /\ a # b

\* a date field of the form holds the text of a day (1, 2, 3), or (0) text that
\* is not a YYYY-MM-DD date

\* strptime raises ValueError on text that is not a date
DateParses(d) == d >= 1

\* parse_yyyy_mm_dd: midnight of the day
parse_yyyy_mm_dd(d) == << d, 0, 0 >>

\* the date filter of both workers: start_dt <= mtime <= end_dt
InRange_strictEnd(mt, start_dt, end_dt) == DtLeq(start_dt, mt) /\ DtLess(mt, end_dt)
InRange_noUpper(mt, start_dt, end_dt) == DtLeq(start_dt, mt)
InRange(mt, start_dt, end_dt) == DtLeq(start_dt, mt) /\ DtLeq(mt, end_dt)

(***************************************************************************)
(* The files on the device and in the local source folder                  *)
(***************************************************************************)
\* remote tree: what `find <root>/<sub> -type f` lists; mtimes are whole seconds
RemoteTree(root, sub) ==
  IF root = Candidates[1] /\ sub = "WhatsApp Images"
    THEN << [id |-> "r1", dir |-> "WhatsApp Images", stem |-> "IMG-1", mt |-> << 2, EndOfDaySecond, 0 >>],
            [id |-> "r2", dir |-> "WhatsApp Images", stem |-> "IMG-2", mt |-> << 3, 0, 0 >>] >>
  ELSE IF root = Candidates[2] /\ sub = "WhatsApp Images"
    THEN << [id |-> "r3", dir |-> "WhatsApp Images", stem |-> "IMG-1", mt |-> << 1, 0, 0 >>] >>
  ELSE IF root = Candidates[2] /\ sub = "WhatsApp Video"
    THEN << [id |-> "r4", dir |-> "WhatsApp Video", stem |-> "VID-1", mt |-> << 0, EndOfDaySecond, 0 >>] >>
  ELSE << >>

\* the devices: one with both media roots, one without WhatsApp media
Devices == {"emulator-5554", "emulator-5556"}
RemoteRootExists(device, root) == device = "emulator-5554"

\* remote directories that exist (root 1 has no Video folder)
RemoteDirExists(root, sub) ==
  \/ root = Candidates[1] /\ sub = "WhatsApp Images"
  \/ root = Candidates[2] /\ sub \in {"WhatsApp Images", "WhatsApp Video"}

\* local tree: the directories os.walk yields under <media_root>/<sub>, top down,
\* each with its files; mtimes carry microseconds
LocalTree(sub) ==
  IF sub = "WhatsApp Images"
    THEN << << [id |-> "l1", dir |-> "WhatsApp Images", stem |-> "IMG-1", mt |-> << 1, 0, 0 >>],
               [id |-> "l2", dir |-> "WhatsApp Images", stem |-> "IMG-2", mt |-> << 2, EndOfDaySecond, 500000 >>] >>,
            << [id |-> "l3", dir |-> "WhatsApp Images/Sent", stem |-> "IMG-1", mt |-> << 2, EndOfDaySecond, 0 >>] >> >>
  ELSE << >>

LocalDirExists(sub) == sub = "WhatsApp Images"

RECURSIVE SeqToSet(_)
SeqToSet(s) == IF s = << >> THEN {} ELSE {Head(s)} \cup SeqToSet(Tail(s))

RECURSIVE Flatten(_)
Flatten(ss) == IF ss = << >> THEN << >> ELSE Head(ss) \o Flatten(Tail(ss))

RemoteFiles == UNION { SeqToSet(RemoteTree(Candidates[c], DEFAULT_SUBFOLDERS[s])) :
                         c \in 1..2, s \in 1..Len(DEFAULT_SUBFOLDERS) }
LocalFiles == UNION { SeqToSet(Flatten(LocalTree(DEFAULT_SUBFOLDERS[s]))) :
                         s \in 1..Len(DEFAULT_SUBFOLDERS) }
AllFiles == RemoteFiles \cup LocalFiles
FileIds == { f.id : f \in AllFiles }
FileById(i) == CHOOSE f \in AllFiles : f.id = i

(***************************************************************************)
(* Destination paths                                                       *)
(***************************************************************************)
\* os.path.join(dest_root, rel_path): rel_path is <dir>/<stem><ext>; dups is the
\* list of "__dup<i>" markers that precede the extension
DestPath(dir, stem) == [dir |-> dir, stem |-> stem, dups |-> << >>]

\* f"{base}__dup{i}{ext}"
DupCandidate(dst_path, i) == [dst_path EXCEPT !.dups = Append(@, i)]

unique_destination_path_noCheck(dst_path, fs) == dst_path
unique_destination_path_firstDup(dst_path, fs) ==
  IF dst_path \notin DOMAIN fs THEN dst_path ELSE DupCandidate(dst_path, 1)
unique_destination_path(dst_path, fs) ==
  IF dst_path \notin DOMAIN fs
    THEN dst_path
    ELSE LET i == CHOOSE k \in 1..(Cardinality(DOMAIN fs) + 1) :
                    /\ DupCandidate(dst_path, k) \notin DOMAIN fs
                    /\ \A j \in 1..(k - 1) : DupCandidate(dst_path, j) \in DOMAIN fs
         IN DupCandidate(dst_path, i)

\* the path an enumeration yields for file f under a media root: the root, the
\* directory below it and the file name
FullPath(root, f) == [root |-> root, dir |-> f.dir, stem |-> f.stem]

\* rel_path: the path below the media root when the path starts with the root
\* (remote_file[len(prefix):], os.path.relpath), else the file name alone
rel_path_basename(file_path, root) == [dir |-> "", stem |-> file_path.stem]
rel_path(file_path, root) ==
  IF file_path.root = root
    THEN [dir |-> file_path.dir, stem |-> file_path.stem]
    ELSE [dir |-> "", stem |-> file_path.stem]

\* the destination tree after a successful write of `content` at `path`
WriteFile(fs, path, content) ==
  [p \in DOMAIN fs \cup {path} |-> IF p = path THEN content ELSE fs[p]]

(***************************************************************************)
(* State                                                                   *)
(***************************************************************************)
VARIABLES
  \* --- App fields shared by the two threads
  ui_queue,        \* self._ui_queue: FIFO of events
  cancel_event,    \* self._cancel_event
  scanned,         \* self._scanned
  matched,         \* self._matched
  errors,          \* self._errors
  \* --- widgets (UI thread only)
  btn_start,       \* "normal" | "disabled"
  btn_cancel,
  lbl_scanned, lbl_matched, lbl_errors,
  progress,        \* [mode, value, maximum, running]
  txt_log,         \* lines of the log box, as a bag (their order is not kept)
  msgbox,          \* text of the open "Input error" dialog, "" if none is open
  \* --- the worker thread: its arguments, position and locals
  args,            \* the tuple handed to _worker_dispatch
  wpc,             \* position of the worker; "none" before the first run, "exited" after return
  roots,           \* ADB: roots found; local: <<media_root>>
  total,           \* estimate accumulator
  ri, si,          \* loop indices over roots and subfolders
  files, fi,       \* listing of the current directory and index into it
  walk, wi,        \* local: directories os.walk still has to yield, and index
  \* --- file systems
  dest,            \* destination tree: path -> content written
  dest_made,       \* destination root directory was created (ensure_dir)
  src_present,     \* ids of the local source files still in place
  \* --- bookkeeping of the current run (not program state)
  runs,            \* accepted Start clicks so far
  cancel_clicks,   \* Cancel clicks in this run
  faults,          \* backend calls that failed in this run
  done_puts,       \* ("done", None) events this run has put on the queue
  last_log,        \* text of the last "log" event this run has put, "" if none
  attempts,        \* file id -> transfer calls made for it in this run
  scanned_ids,     \* ids of the files counted as scanned in this run
  timed_ids,       \* ids of the files whose modification time was read in this run
  enumerated,      \* files returned by the listings of this run
  passed,          \* scanned files that passed the date filter in this run
  xfer_errors,     \* errors of this run that came from a failed transfer
  calls,           \* backend calls of this run, by kind
  latch_at,        \* value of scanned when the latch was set in this run, -1 if not set
  latch_pc,        \* position of the worker when the latch was set in this run, "" if not set
  put_seq,         \* events this run has put on the queue
  got_seq,         \* sequence number of the last event the consumer handled in this run
  last_put,        \* counter kind -> payload of the last event of that kind this run has put
  probe,           \* arguments and results of a function that is applied on its own
  prev_latch       \* whether the latch was set when the last accepted Start found it

shared == << ui_queue, cancel_event, scanned, matched, errors >>
widgets == << btn_start, btn_cancel, lbl_scanned, lbl_matched, lbl_errors, progress, txt_log, msgbox >>
worker == << args, wpc, roots, total, ri, si, files, fi, walk, wi >>
fsys == << dest, dest_made, src_present >>
book == << runs, cancel_clicks, faults, done_puts, last_log, put_seq, last_put, attempts, scanned_ids, timed_ids, enumerated, passed, xfer_errors, calls, latch_at, latch_pc, got_seq, probe, prev_latch >>
vars == << shared, widgets, worker, fsys, book >>

(***************************************************************************)
(* Events and log lines                                                    *)
(***************************************************************************)
\* an event; `seq` is its position among the events of its run, given by Put
Ev(kind, n, msg) == [kind |-> kind, n |-> n, msg |-> msg, seq |-> 0]
Log(msg) == Ev("log", 0, msg)
Line(msg) == [msg |-> msg, vals |-> << >>]

NoArgs == [src_mode |-> "", src_value |-> "", dest_root |-> "", start_dt |-> << 0, 0, 0 >>,
           end_dt |-> << 0, 0, 0 >>, subfolders |-> << >>, mode |-> ""]
NoCalls == [exists |-> 0, count |-> 0, list |-> 0, mtime |-> 0, transfer |-> 0]
CounterKinds == {"scanned", "matched", "errors"}
NonePut == [c \in CounterKinds |-> 0]
NoProbe == [stage |-> 0]

\* the App after __init__, but for the destination tree
InitApp ==
  /\ ui_queue = << >> /\ cancel_event = FALSE
  /\ scanned = 0 /\ matched = 0 /\ errors = 0
  /\ btn_start = "normal" /\ btn_cancel = "disabled"
  /\ lbl_scanned = 0 /\ lbl_matched = 0 /\ lbl_errors = 0
  /\ progress = [mode |-> "determinate", value |-> 0, maximum |-> 100, running |-> FALSE]
  /\ txt_log = EmptyBag /\ msgbox = ""
  /\ args = NoArgs /\ wpc = "none"
  /\ roots = << >> /\ total = 0 /\ ri = 0 /\ si = 0
  /\ files = << >> /\ fi = 0 /\ walk = << >> /\ wi = 0
  /\ dest_made = FALSE
  /\ src_present = { f.id : f \in LocalFiles }
  /\ runs = 0 /\ cancel_clicks = 0
  /\ faults = 0 /\ done_puts = 0 /\ last_log = ""
  /\ attempts = [i \in FileIds |-> 0] /\ scanned_ids = {} /\ timed_ids = {}
  /\ enumerated = 0 /\ passed = 0 /\ xfer_errors = 0
  /\ calls = NoCalls /\ latch_at = -1 /\ latch_pc = ""
  /\ put_seq = 0 /\ got_seq = 0 /\ last_put = NonePut /\ prev_latch = FALSE

Init ==
  /\ InitApp
  /\ dest = [p \in {} |-> << >>]
  /\ probe = NoProbe

(***************************************************************************)
(* Validation and Start                                                    *)
(***************************************************************************)
\* what the user may have entered when Start is clicked: a form that is filled
\* in well (every source type, device and mode), or such a form with one field
\* spoilt; the field of the source type that is not selected is left empty
GoodForms ==
  [src_mode : {"adb"}, device : Devices, src_folder : {""}, dest : {"out"},
   start : {1}, end : {2}, chosen : {MaxChosen}, mode : {"copy", "move"}]
  \cup
  [src_mode : {"local"}, device : {""}, src_folder : {"backup"}, dest : {"out"},
   start : {1}, end : {2}, chosen : {MaxChosen}, mode : {"copy", "move"}]

Forms ==
  GoodForms
  \cup { [f EXCEPT !.dest = ""] : f \in GoodForms }
  \cup { [f EXCEPT !.start = 0] : f \in GoodForms }
  \cup { [f EXCEPT !.end = 0] : f \in GoodForms }
  \cup { [f EXCEPT !.start = 3] : f \in GoodForms }
  \cup { [f EXCEPT !.chosen = 0] : f \in GoodForms }
  \cup { [f EXCEPT !.device = "", !.src_folder = ""] : f \in GoodForms }

\* chosen_subs: the ticked names, in DEFAULT_SUBFOLDERS order
ChosenSubs(k) == SubSeq(DEFAULT_SUBFOLDERS, 1, k)

\* os.path.isdir(src_folder)
IsDir(path) == path = "backup"

Reject(msg) == [ok |-> FALSE, err |-> msg, made |-> FALSE, args |-> NoArgs]
RejectMade(msg) == [ok |-> FALSE, err |-> msg, made |-> TRUE, args |-> NoArgs]
Accept(a) == [ok |-> TRUE, err |-> "", made |-> TRUE, args |-> a]

validate_inputs_adbMoveAsCopy(form) ==
  IF form.src_mode \notin {"adb", "local"} THEN Reject("Invalid Source Type selected.")
  ELSE IF form.dest = "" THEN Reject("Please select a Destination folder.")
  ELSE IF ~DateParses(form.start) \/ ~DateParses(form.end) THEN RejectMade("ValueError")
  ELSE LET start_dt == parse_yyyy_mm_dd(form.start)
           end_dt == [parse_yyyy_mm_dd(form.end) EXCEPT ![2] = EndOfDaySecond]
           chosen_subs == ChosenSubs(form.chosen)
       IN IF DtLess(end_dt, start_dt)
            THEN RejectMade("End date must be the same as or later than start date.")
          ELSE IF chosen_subs = << >>
            THEN RejectMade("Please select at least one subfolder to scan.")
          ELSE IF form.mode \notin {"copy", "move"}
            THEN RejectMade("Invalid export mode selected.")
          ELSE IF form.src_mode = "adb"
            THEN IF form.device = ""
                   THEN RejectMade("Please select a connected device (Refresh Devices if needed).")
                 ELSE Accept([src_mode |-> "adb", src_value |-> form.device, dest_root |-> form.dest,
                         start_dt |-> start_dt, end_dt |-> end_dt, subfolders |-> chosen_subs,
                         mode |-> "copy"])
          ELSE IF form.src_folder = "" \/ ~IsDir(form.src_folder)
            THEN RejectMade("Please select a valid Source folder (copied from phone).")
          ELSE Accept([src_mode |-> "local", src_value |-> form.src_folder, dest_root |-> form.dest,
                  start_dt |-> start_dt, end_dt |-> end_dt, subfolders |-> chosen_subs,
                  mode |-> form.mode])

validate_inputs(form) ==
  IF form.src_mode \notin {"adb", "local"} THEN Reject("Invalid Source Type selected.")
  ELSE IF form.dest = "" THEN Reject("Please select a Destination folder.")
  ELSE IF ~DateParses(form.start) \/ ~DateParses(form.end) THEN RejectMade("ValueError")
  ELSE LET start_dt == parse_yyyy_mm_dd(form.start)
           end_dt == [parse_yyyy_mm_dd(form.end) EXCEPT ![2] = EndOfDaySecond]
           chosen_subs == ChosenSubs(form.chosen)
       IN IF DtLess(end_dt, start_dt)
            THEN RejectMade("End date must be the same as or later than start date.")
          ELSE IF chosen_subs = << >>
            THEN RejectMade("Please select at least one subfolder to scan.")
          ELSE IF form.mode \notin {"copy", "move"}
            THEN RejectMade("Invalid export mode selected.")
          ELSE IF form.src_mode = "adb"
            THEN IF form.device = ""
                   THEN RejectMade("Please select a connected device (Refresh Devices if needed).")
                 ELSE IF form.mode = "move"
                   THEN RejectMade("Move mode is not supported in USB Device (ADB) mode. Use Copy.")
                 ELSE Accept([src_mode |-> "adb", src_value |-> form.device, dest_root |-> form.dest,
                         start_dt |-> start_dt, end_dt |-> end_dt, subfolders |-> chosen_subs,
                         mode |-> "copy"])
          ELSE IF form.src_folder = "" \/ ~IsDir(form.src_folder)
            THEN RejectMade("Please select a valid Source folder (copied from phone).")
          ELSE Accept([src_mode |-> "local", src_value |-> form.src_folder, dest_root |-> form.dest,
                  start_dt |-> start_dt, end_dt |-> end_dt, subfolders |-> chosen_subs,
                  mode |-> form.mode])

\* _on_start, when _validate_inputs raises: the dialog, and nothing else
OnStartRejected(form) ==
  /\ btn_start = "normal" /\ msgbox = ""
  /\ ~validate_inputs(form).ok
  /\ msgbox' = validate_inputs(form).err
  /\ dest_made' = (dest_made \/ validate_inputs(form).made)
  /\ UNCHANGED << shared, worker, book, dest, src_present >>
  /\ UNCHANGED << btn_start, btn_cancel, lbl_scanned, lbl_matched, lbl_errors, progress, txt_log >>

\* _set_running_ui: the states of the Start and the Cancel button
set_running_ui_startEnabled(running) ==
  [start |-> "normal", cancel |-> IF running THEN "normal" ELSE "disabled"]
set_running_ui(running) ==
  [start |-> IF running THEN "disabled" ELSE "normal",
   cancel |-> IF running THEN "normal" ELSE "disabled"]

\* self._cancel_event.clear()
cancel_event_clear_skipped(latch) == latch
cancel_event_clear(latch) == FALSE

\* _on_start, when the inputs are valid: reset, then start the worker thread
OnStartAccepted(form) ==
  /\ btn_start = "normal" /\ msgbox = ""
  /\ runs < MaxRuns
  /\ validate_inputs(form).ok
  /\ dest_made' = TRUE
  /\ cancel_event' = cancel_event_clear(cancel_event)
  /\ scanned' = 0 /\ matched' = 0 /\ errors' = 0
  /\ btn_start' = set_running_ui(TRUE).start /\ btn_cancel' = set_running_ui(TRUE).cancel
  /\ progress' = [progress EXCEPT !.value = 0, !.maximum = 100, !.mode = "determinate"]
  /\ txt_log' = SetToBag({Line("Starting export...")})
  /\ args' = validate_inputs(form).args
  /\ wpc' = "dispatch"
  /\ roots' = << >> /\ total' = 0 /\ ri' = 0 /\ si' = 0
  /\ files' = << >> /\ fi' = 0 /\ walk' = << >> /\ wi' = 0
  /\ runs' = runs + 1 /\ cancel_clicks' = 0
  /\ faults' = 0 /\ done_puts' = 0 /\ last_log' = ""
  /\ attempts' = [i \in FileIds |-> 0] /\ scanned_ids' = {} /\ timed_ids' = {}
  /\ enumerated' = 0 /\ passed' = 0 /\ xfer_errors' = 0
  /\ calls' = NoCalls /\ latch_at' = -1 /\ latch_pc' = ""
  /\ put_seq' = 0 /\ got_seq' = 0 /\ last_put' = NonePut
  /\ UNCHANGED probe /\ prev_latch' = cancel_event
  /\ UNCHANGED << ui_queue, lbl_scanned, lbl_matched, lbl_errors, msgbox, dest, src_present >>

OnStart == \E form \in Forms : OnStartRejected(form) \/ OnStartAccepted(form)

\* threading.Thread.is_alive()
WorkerAlive == wpc \notin {"none", "exited"}

\* _on_cancel
OnCancel ==
  /\ btn_cancel = "normal" /\ msgbox = ""
  /\ cancel_clicks < MaxCancelClicks
  /\ cancel_clicks' = cancel_clicks + 1
  /\ IF WorkerAlive
       THEN /\ cancel_event' = TRUE
            /\ txt_log' = txt_log (+) SetToBag({Line("Cancel requested. The exporter will stop after the current file.")})
            /\ latch_at' = IF cancel_event THEN latch_at ELSE scanned
            /\ latch_pc' = IF cancel_event THEN latch_pc ELSE wpc
       ELSE UNCHANGED << cancel_event, txt_log, latch_at, latch_pc >>
  /\ UNCHANGED << ui_queue, scanned, matched, errors, worker, fsys >>
  /\ UNCHANGED << btn_start, btn_cancel, lbl_scanned, lbl_matched, lbl_errors, progress, msgbox >>
  /\ UNCHANGED << runs, faults, done_puts, last_log, put_seq, last_put, got_seq, probe, prev_latch, attempts, scanned_ids, timed_ids, enumerated, passed, xfer_errors, calls >>

\* the user closes the modal "Input error" dialog
DismissDialog ==
  /\ msgbox # ""
  /\ msgbox' = ""
  /\ UNCHANGED << shared, worker, fsys, book >>
  /\ UNCHANGED << btn_start, btn_cancel, lbl_scanned, lbl_matched, lbl_errors, progress, txt_log >>

(***************************************************************************)
(* The worker thread                                                       *)
(***************************************************************************)
\* self._ui_queue.put, for a list of events
Put(evs) ==
  /\ ui_queue' = ui_queue \o [k \in 1..Len(evs) |-> [evs[k] EXCEPT !.seq = put_seq + k]]
  /\ put_seq' = put_seq + Len(evs)
  /\ last_put' = [c \in CounterKinds |->
                    LET of_kind == SelectSeq(evs, LAMBDA e : e.kind = c)
                    IN IF of_kind = << >> THEN last_put[c] ELSE of_kind[Len(of_kind)].n]
  /\ done_puts' = done_puts + Cardinality({k \in 1..Len(evs) : evs[k].kind = "done"})
  /\ last_log' = LET logs == SelectSeq(evs, LAMBDA e : e.kind = "log")
                 IN IF logs = << >> THEN last_log ELSE logs[Len(logs)].msg

\* the worker thread gets the processor
Scheduled(at) == wpc = at /\ Len(ui_queue) <= MaxBacklog

Bump(kind) == [calls EXCEPT ![kind] = @ + 1]

\* what the worker never touches
WorkerFrame == /\ UNCHANGED << cancel_event, widgets, args, dest_made >>
               /\ UNCHANGED << runs, cancel_clicks, latch_at, latch_pc, got_seq, probe, prev_latch >>

\* the events of a failed item: errors += 1, ("errors", n), ("log", ...)
ErrorEvents_logOnly(msg) == << Log(msg) >>
ErrorEvents(msg) == << Ev("errors", errors + 1, ""), Log(msg) >>

\* _worker_dispatch: the branch on src_mode: where the worker goes on
WorkerEntry_adbOnly(src_mode) == IF src_mode = "adb" THEN "a_find_roots" ELSE "dispatch"
WorkerEntry(src_mode) == IF src_mode = "adb" THEN "a_find_roots" ELSE "l_detect"

Dispatch ==
  /\ Scheduled("dispatch")
  /\ wpc' = WorkerEntry(args.src_mode)
  /\ ri' = 1
  /\ UNCHANGED << ui_queue, scanned, matched, errors, roots, total, si, files, fi, walk, wi >>
  /\ UNCHANGED << fsys, done_puts, last_log, put_seq, last_put, attempts, scanned_ids, timed_ids, enumerated, passed, xfer_errors, calls, faults >>
  /\ WorkerFrame

\* _worker_dispatch: finally: put ("done", None), then the thread returns
FinallyEvents_none == << >>
FinallyEvents == << Ev("done", 0, "") >>

DispatchFinally ==
  /\ Scheduled("finally")
  /\ Put(FinallyEvents)
  /\ wpc' = "exited"
  /\ UNCHANGED << scanned, matched, errors, roots, total, ri, si, files, fi, walk, wi >>
  /\ UNCHANGED << fsys, attempts, scanned_ids, timed_ids, enumerated, passed, xfer_errors, calls, faults >>
  /\ WorkerFrame

\* ---------------- ADB worker ----------------

\* except Exception as e: of _worker_adb, reached by an adb command that fails
\* outside the inner try blocks
AdbFatal(kind) ==
  /\ faults < MaxFaults /\ faults' = faults + 1
  /\ errors' = errors + 1
  /\ Put(ErrorEvents("FATAL (ADB mode)"))
  /\ wpc' = "finally"
  /\ calls' = Bump(kind)
  /\ UNCHANGED << scanned, matched, roots, total, ri, si, files, fi, walk, wi >>
  /\ UNCHANGED << fsys, attempts, scanned_ids, timed_ids, enumerated, passed, xfer_errors >>

\* `if not roots:` is not taken
RootsFound_always(rs) == TRUE
RootsFound(rs) == rs # << >>

\* adb_find_whatsapp_media_roots, one candidate per step, and the `if not roots`
AdbFindRoots ==
  /\ Scheduled("a_find_roots")
  /\ WorkerFrame
  /\ \/ AdbFatal("exists")
     \/ LET rs == IF RemoteRootExists(args.src_value, Candidates[ri])
                     THEN Append(roots, Candidates[ri]) ELSE roots IN
          /\ roots' = rs
          /\ UNCHANGED faults
          /\ calls' = Bump("exists")
          /\ IF ri < Len(Candidates)
               THEN /\ ri' = ri + 1
                    /\ UNCHANGED << wpc, si, total, ui_queue, done_puts, last_log, put_seq, last_put >>
               ELSE IF ~RootsFound(rs)
                 THEN /\ Put(<< Log("ERROR: Could not find WhatsApp Media folder on the device."),
                                Log("Tried: both well-known roots") >>)
                      /\ wpc' = "finally"
                      /\ UNCHANGED << ri, si, total >>
                 ELSE /\ Put(<< Log("Using WhatsApp Media root(s)") >>)
                      /\ wpc' = "a_estimate"
                      /\ ri' = 1 /\ si' = 1 /\ total' = 0
          /\ UNCHANGED << scanned, matched, errors, files, fi, walk, wi >>
          /\ UNCHANGED << fsys, attempts, scanned_ids, timed_ids, enumerated, passed, xfer_errors >>

\* the estimate loop: adb_path_exists, then adb_count_files, for one root/sub
AdbEstimate ==
  /\ Scheduled("a_estimate")
  /\ WorkerFrame
  /\ LET root == roots[ri]
         sub == args.subfolders[si]
         exists == RemoteDirExists(root, sub)
     IN
     \/ AdbFatal("exists")
     \/ exists /\ AdbFatal("count")
     \/ \E parsed \in BOOLEAN :
          /\ exists \/ parsed
          /\ IF parsed THEN UNCHANGED faults ELSE faults < MaxFaults /\ faults' = faults + 1
          /\ total' = IF exists /\ parsed THEN total + Len(RemoteTree(root, sub)) ELSE total
          /\ calls' = IF exists THEN [calls EXCEPT !.exists = @ + 1, !.count = @ + 1]
                                ELSE Bump("exists")
          /\ IF si < Len(args.subfolders)
               THEN si' = si + 1 /\ UNCHANGED << ri, wpc >>
               ELSE IF ri < Len(roots)
                 THEN ri' = ri + 1 /\ si' = 1 /\ UNCHANGED wpc
                 ELSE wpc' = "a_progress" /\ UNCHANGED << ri, si >>
          /\ UNCHANGED << ui_queue, done_puts, last_log, put_seq, last_put, scanned, matched, errors, roots, files, fi, walk, wi >>
          /\ UNCHANGED << fsys, attempts, scanned_ids, timed_ids, enumerated, passed, xfer_errors >>

\* if total > 0: progress_setup ... else: progress_indeterminate ...
ProgressEvents(t) ==
  IF t > 0
    THEN << Ev("progress_setup", t, ""), Log("Estimated total files to scan") >>
    ELSE << Ev("progress_indeterminate", 0, ""), Log("Scanning... (progress is indeterminate)") >>

AdbProgress ==
  /\ Scheduled("a_progress")
  /\ WorkerFrame
  /\ Put(ProgressEvents(total))
  /\ wpc' = "a_root" /\ ri' = 1
  /\ UNCHANGED << scanned, matched, errors, roots, total, si, files, fi, walk, wi >>
  /\ UNCHANGED << fsys, attempts, scanned_ids, timed_ids, enumerated, passed, xfer_errors, calls, faults >>

\* a for loop over a list of n items is exhausted at index i
LoopDone_offByOne(i, n) == i >= n
LoopDone(i, n) == i > n

\* for root in roots: if cancel: break
AdbRoot ==
  /\ Scheduled("a_root")
  /\ WorkerFrame
  /\ IF LoopDone(ri, Len(roots)) \/ cancel_event
       THEN wpc' = "a_final" /\ UNCHANGED si
       ELSE wpc' = "a_sub" /\ si' = 1
  /\ UNCHANGED << ui_queue, done_puts, last_log, put_seq, last_put, scanned, matched, errors, roots, total, ri, files, fi, walk, wi >>
  /\ UNCHANGED << fsys, attempts, scanned_ids, timed_ids, enumerated, passed, xfer_errors, calls, faults >>

\* for sub in subfolders: if cancel: break
AdbSub ==
  /\ Scheduled("a_sub")
  /\ WorkerFrame
  /\ IF LoopDone(si, Len(args.subfolders)) \/ cancel_event
       THEN wpc' = "a_root" /\ ri' = ri + 1
       ELSE wpc' = "a_dir" /\ UNCHANGED ri
  /\ UNCHANGED << ui_queue, done_puts, last_log, put_seq, last_put, scanned, matched, errors, roots, total, si, files, fi, walk, wi >>
  /\ UNCHANGED << fsys, attempts, scanned_ids, timed_ids, enumerated, passed, xfer_errors, calls, faults >>

\* adb_path_exists(remote_dir), then adb_find_files(remote_dir)
AdbDir ==
  /\ Scheduled("a_dir")
  /\ WorkerFrame
  /\ LET root == roots[ri]
         sub == args.subfolders[si]
     IN
     \/ AdbFatal("exists")
     \/ /\ ~RemoteDirExists(root, sub)
        /\ UNCHANGED faults
        /\ Put(<< Log("Skipping missing folder") >>)
        /\ calls' = Bump("exists")
        /\ wpc' = "a_sub" /\ si' = si + 1
        /\ UNCHANGED << scanned, matched, errors, roots, total, ri, files, fi, walk, wi >>
        /\ UNCHANGED << fsys, attempts, scanned_ids, timed_ids, enumerated, passed, xfer_errors >>
     \/ /\ RemoteDirExists(root, sub)
        /\ faults < MaxFaults /\ faults' = faults + 1
        /\ errors' = errors + 1
        /\ Put(ErrorEvents("ERROR listing files"))
        /\ calls' = [calls EXCEPT !.exists = @ + 1, !.list = @ + 1]
        /\ wpc' = "a_sub" /\ si' = si + 1
        /\ UNCHANGED << scanned, matched, roots, total, ri, files, fi, walk, wi >>
        /\ UNCHANGED << fsys, attempts, scanned_ids, timed_ids, enumerated, passed, xfer_errors >>
     \/ /\ RemoteDirExists(root, sub)
        /\ UNCHANGED faults
        /\ files' = RemoteTree(root, sub) /\ fi' = 1
        /\ enumerated' = enumerated + Len(RemoteTree(root, sub))
        /\ calls' = [calls EXCEPT !.exists = @ + 1, !.list = @ + 1]
        /\ wpc' = "a_file"
        /\ UNCHANGED << ui_queue, done_puts, last_log, put_seq, last_put, scanned, matched, errors, roots, total, ri, si, walk, wi >>
        /\ UNCHANGED << fsys, attempts, scanned_ids, timed_ids, passed, xfer_errors >>

\* for remote_file in remote_files: if cancel: break
AdbFile ==
  /\ Scheduled("a_file")
  /\ WorkerFrame
  /\ IF LoopDone(fi, Len(files)) \/ cancel_event
       THEN wpc' = "a_sub" /\ si' = si + 1
       ELSE wpc' = "a_proc" /\ UNCHANGED si
  /\ UNCHANGED << ui_queue, done_puts, last_log, put_seq, last_put, scanned, matched, errors, roots, total, ri, files, fi, walk, wi >>
  /\ UNCHANGED << fsys, attempts, scanned_ids, timed_ids, enumerated, passed, xfer_errors, calls, faults >>

\* the events of step 1 of a file
ScanEvents == << Ev("scanned", scanned + 1, ""), Ev("progress_tick", 1, "") >>

\* the body of the file loop for one file: count it, read its time, filter it,
\* choose the destination, transfer it.  `src_after` is the source tree after a
\* successful transfer, `next` the position after the file.
\* self._matched after a transfer that succeeded (ok) or raised
MatchedAfter_always(m, ok) == m + 1
MatchedAfter(m, ok) == IF ok THEN m + 1 ELSE m

ProcessFile(f, src_after, next) ==
  /\ scanned' = scanned + 1
  /\ scanned_ids' = scanned_ids \cup {f.id}
  /\ wpc' = next /\ fi' = fi + 1
  /\ \/ \* the modification time cannot be read
        /\ faults < MaxFaults /\ faults' = faults + 1
        /\ errors' = errors + 1
        /\ Put(ScanEvents \o ErrorEvents("ERROR reading time"))
        /\ calls' = Bump("mtime")
        /\ UNCHANGED << matched, fsys, attempts, timed_ids, passed, xfer_errors >>
     \/ \* outside the range: skipped silently
        /\ ~InRange(f.mt, args.start_dt, args.end_dt)
        /\ UNCHANGED faults
        /\ timed_ids' = timed_ids \cup {f.id}
        /\ Put(ScanEvents)
        /\ calls' = Bump("mtime")
        /\ UNCHANGED << matched, errors, fsys, attempts, passed, xfer_errors >>
     \/ \* inside the range: one transfer, which succeeds or fails
        /\ InRange(f.mt, args.start_dt, args.end_dt)
        /\ timed_ids' = timed_ids \cup {f.id}
        /\ passed' = passed + 1
        /\ attempts' = [attempts EXCEPT ![f.id] = @ + 1]
        /\ calls' = [calls EXCEPT !.mtime = @ + 1, !.transfer = @ + 1]
        /\ LET rel == rel_path(FullPath(roots[ri], f), roots[ri])
               dst_file == unique_destination_path(DestPath(rel.dir, rel.stem), dest) IN
           \/ /\ dest' = WriteFile(dest, dst_file, << f.id, runs >>)
              /\ src_present' = src_after
              /\ matched' = MatchedAfter(matched, TRUE)
              /\ Put(ScanEvents \o << Ev("matched", MatchedAfter(matched, TRUE), ""), Log("Exported") >>)
              /\ UNCHANGED << errors, xfer_errors, dest_made, faults >>
           \/ /\ faults < MaxFaults /\ faults' = faults + 1
              /\ matched' = MatchedAfter(matched, FALSE)
              /\ errors' = errors + 1
              /\ xfer_errors' = xfer_errors + 1
              /\ Put(ScanEvents \o ErrorEvents("ERROR exporting"))
              /\ UNCHANGED fsys

AdbProc ==
  /\ Scheduled("a_proc")
  /\ WorkerFrame
  /\ ProcessFile(files[fi], src_present, "a_file")
  /\ UNCHANGED << roots, total, ri, si, files, walk, wi, enumerated >>

\* the closing log line of a worker
FinalEvents_alwaysComplete(mode_name) ==
  << Log("Export complete") >>

FinalEvents(mode_name) ==
  << Log(IF cancel_event THEN "Cancelled by user." ELSE "Export complete") >>

AdbFinal ==
  /\ Scheduled("a_final")
  /\ WorkerFrame
  /\ Put(FinalEvents("ADB mode"))
  /\ wpc' = "finally"
  /\ UNCHANGED << scanned, matched, errors, roots, total, ri, si, files, fi, walk, wi >>
  /\ UNCHANGED << fsys, attempts, scanned_ids, timed_ids, enumerated, passed, xfer_errors, calls, faults >>

\* ---------------- local worker ----------------

\* detect_media_root: <source_root>/Media if that is a directory, else source_root
HasMediaDir(source_root) == source_root = "backup"
detect_media_root(source_root) ==
  IF HasMediaDir(source_root) THEN << source_root, "Media" >> ELSE << source_root >>

\* the files of one walked directory that are still in place
Listing(chunk, present) == SelectSeq(chunk, LAMBDA f : f.id \in present)

\* len(files) of every directory the estimate walk visits, in visiting order
RECURSIVE WalkSizes(_, _)
WalkSizes(subfolders, present) ==
  IF subfolders = << >> THEN << >>
  ELSE LET sub == Head(subfolders)
           here == IF LocalDirExists(sub)
                     THEN [k \in 1..Len(LocalTree(sub)) |-> Len(Listing(LocalTree(sub)[k], present))]
                     ELSE << >>
       IN here \o WalkSizes(Tail(subfolders), present)

\* total += len(files); if total > 500000: return total
RECURSIVE EstimateFold(_, _)
EstimateFold(sizes, t) ==
  IF sizes = << >> THEN t
  ELSE IF t + Head(sizes) > EstimateCap THEN t + Head(sizes)
  ELSE EstimateFold(Tail(sizes), t + Head(sizes))

estimate_total_files_local(subfolders, present) == EstimateFold(WalkSizes(subfolders, present), 0)

\* media_root = detect_media_root(source_root), its log line, the estimate and
\* the progress events
LocalDetect ==
  /\ Scheduled("l_detect")
  /\ WorkerFrame
  /\ roots' = << detect_media_root(args.src_value) >>
  /\ total' = estimate_total_files_local(args.subfolders, src_present)
  /\ Put(<< Log("Media root detected") >>
         \o ProgressEvents(estimate_total_files_local(args.subfolders, src_present)))
  /\ wpc' = "l_sub" /\ si' = 1
  /\ UNCHANGED << scanned, matched, errors, ri, files, fi, walk, wi >>
  /\ UNCHANGED << fsys, attempts, scanned_ids, timed_ids, enumerated, passed, xfer_errors, calls, faults >>

\* for sub in subfolders: if cancel: break
LocalSub ==
  /\ Scheduled("l_sub")
  /\ WorkerFrame
  /\ wpc' = IF LoopDone(si, Len(args.subfolders)) \/ cancel_event THEN "l_final" ELSE "l_dir"
  /\ UNCHANGED << ui_queue, done_puts, last_log, put_seq, last_put, scanned, matched, errors, roots, total, ri, si, files, fi, walk, wi >>
  /\ UNCHANGED << fsys, attempts, scanned_ids, timed_ids, enumerated, passed, xfer_errors, calls, faults >>

\* if not os.path.isdir(src_dir): log, continue; else start os.walk(src_dir)
LocalDir ==
  /\ Scheduled("l_dir")
  /\ WorkerFrame
  /\ calls' = Bump("exists") /\ UNCHANGED faults
  /\ IF LocalDirExists(args.subfolders[si])
       THEN /\ walk' = LocalTree(args.subfolders[si]) /\ wi' = 1
            /\ wpc' = "l_walk"
            /\ UNCHANGED << ui_queue, done_puts, last_log, put_seq, last_put, si >>
       ELSE /\ Put(<< Log("Skipping missing folder") >>)
            /\ wpc' = "l_sub" /\ si' = si + 1
            /\ UNCHANGED << walk, wi >>
  /\ UNCHANGED << scanned, matched, errors, roots, total, ri, files, fi >>
  /\ UNCHANGED << fsys, attempts, scanned_ids, timed_ids, enumerated, passed, xfer_errors >>

\* the os.walk generator is advanced: it lists the next directory (silently
\* yielding nothing for a directory it cannot list) or is exhausted
LocalWalk ==
  /\ Scheduled("l_walk")
  /\ WorkerFrame
  /\ IF LoopDone(wi, Len(walk))
       THEN /\ wpc' = "l_sub" /\ si' = si + 1
            /\ UNCHANGED << files, fi, wi, enumerated, calls, faults >>
       ELSE /\ calls' = Bump("list")
            /\ \/ /\ files' = Listing(walk[wi], src_present) /\ fi' = 1
                  /\ UNCHANGED faults
                  /\ enumerated' = enumerated + Len(Listing(walk[wi], src_present))
                  /\ wpc' = "l_walk_chk"
                  /\ UNCHANGED << si, wi >>
               \/ /\ faults < MaxFaults /\ faults' = faults + 1
                  /\ IF wi = 1
                       THEN wpc' = "l_sub" /\ si' = si + 1 /\ UNCHANGED wi
                       ELSE wi' = wi + 1 /\ UNCHANGED << wpc, si >>
                  /\ UNCHANGED << files, fi, enumerated >>
  /\ UNCHANGED << ui_queue, done_puts, last_log, put_seq, last_put, scanned, matched, errors, roots, total, ri, walk >>
  /\ UNCHANGED << fsys, attempts, scanned_ids, timed_ids, passed, xfer_errors >>

\* for root, _, files in os.walk(src_dir): if cancel: break
LocalWalkCheck ==
  /\ Scheduled("l_walk_chk")
  /\ WorkerFrame
  /\ IF cancel_event
       THEN wpc' = "l_sub" /\ si' = si + 1
       ELSE wpc' = "l_file" /\ UNCHANGED si
  /\ UNCHANGED << ui_queue, done_puts, last_log, put_seq, last_put, scanned, matched, errors, roots, total, ri, files, fi, walk, wi >>
  /\ UNCHANGED << fsys, attempts, scanned_ids, timed_ids, enumerated, passed, xfer_errors, calls, faults >>

\* for name in files: if cancel: break
LocalFile ==
  /\ Scheduled("l_file")
  /\ WorkerFrame
  /\ IF LoopDone(fi, Len(files)) \/ cancel_event
       THEN wpc' = "l_walk" /\ wi' = wi + 1
       ELSE wpc' = "l_proc" /\ UNCHANGED wi
  /\ UNCHANGED << ui_queue, done_puts, last_log, put_seq, last_put, scanned, matched, errors, roots, total, ri, si, files, fi, walk >>
  /\ UNCHANGED << fsys, attempts, scanned_ids, timed_ids, enumerated, passed, xfer_errors, calls, faults >>

\* shutil.copy2 leaves the source in place, shutil.move removes it
SourceAfter_alwaysRemoves(mode, present, id) == present \ {id}
SourceAfter(mode, present, id) == IF mode = "copy" THEN present ELSE present \ {id}

LocalProc ==
  /\ Scheduled("l_proc")
  /\ WorkerFrame
  /\ ProcessFile(files[fi], SourceAfter(args.mode, src_present, files[fi].id), "l_file")
  /\ UNCHANGED << roots, total, ri, si, files, walk, wi, enumerated >>

LocalFinal ==
  /\ Scheduled("l_final")
  /\ WorkerFrame
  /\ Put(FinalEvents("Local Folder mode"))
  /\ wpc' = "finally"
  /\ UNCHANGED << scanned, matched, errors, roots, total, ri, si, files, fi, walk, wi >>
  /\ UNCHANGED << fsys, attempts, scanned_ids, timed_ids, enumerated, passed, xfer_errors, calls, faults >>

(***************************************************************************)
(* The UI thread: draining the queue                                       *)
(***************************************************************************)
Summary == [msg |-> "Finished.", vals |-> << scanned, matched, errors >>]

\* _process_ui_queue takes one event, _handle_ui_event handles it
LogLine(line) == txt_log (+) SetToBag({line})

\* the log box after the "done" event: the summary line is added
AfterDone_quietOnCancel == IF cancel_event THEN txt_log ELSE LogLine(Summary)
AfterDone == LogLine(Summary)

\* self._ui_queue.get_nowait(): the oldest event, and the queue without it
get_nowait_newest(q) == [item |-> q[Len(q)], rest |-> SubSeq(q, 1, Len(q) - 1)]
get_nowait(q) == [item |-> Head(q), rest |-> Tail(q)]

HandleUiEvent ==
  /\ ui_queue # << >>
  /\ LET item == get_nowait(ui_queue).item
         kind == item.kind
     IN
     /\ ui_queue' = get_nowait(ui_queue).rest
     /\ got_seq' = item.seq
     /\ txt_log' = IF kind = "log" THEN LogLine(Line(item.msg))
                   ELSE IF kind = "done" THEN AfterDone
                   ELSE txt_log
     /\ lbl_scanned' = IF kind = "scanned" THEN item.n ELSE lbl_scanned
     /\ lbl_matched' = IF kind = "matched" THEN item.n ELSE lbl_matched
     /\ lbl_errors' = IF kind = "errors" THEN item.n ELSE lbl_errors
     /\ progress' =
          IF kind = "progress_setup"
            THEN [progress EXCEPT !.mode = "determinate",
                                  !.maximum = IF item.n > 1 THEN item.n ELSE 1, !.value = 0]
          ELSE IF kind = "progress_tick"
            THEN IF progress.mode = "determinate"
                   THEN [progress EXCEPT !.value = IF @ + item.n < progress.maximum
                                                     THEN @ + item.n ELSE progress.maximum]
                   ELSE progress
          ELSE IF kind = "progress_indeterminate"
            THEN [progress EXCEPT !.mode = "indeterminate", !.running = TRUE]
          ELSE IF kind = "done" /\ progress.mode = "indeterminate"
            THEN [mode |-> "determinate", value |-> 0, maximum |-> 100, running |-> FALSE]
          ELSE progress
     /\ btn_start' = IF kind = "done" THEN set_running_ui(FALSE).start ELSE btn_start
     /\ btn_cancel' = IF kind = "done" THEN set_running_ui(FALSE).cancel ELSE btn_cancel
  /\ UNCHANGED << cancel_event, scanned, matched, errors, msgbox, worker, fsys >>
  /\ UNCHANGED << runs, cancel_clicks, faults, done_puts, last_log, put_seq, last_put, attempts, scanned_ids, timed_ids, enumerated, passed, xfer_errors, calls, latch_at, latch_pc, probe, prev_latch >>

(***************************************************************************)
(* Specification                                                           *)
(***************************************************************************)
WorkerStep ==
  \/ Dispatch \/ DispatchFinally
  \/ AdbFindRoots \/ AdbEstimate \/ AdbProgress \/ AdbRoot \/ AdbSub \/ AdbDir
  \/ AdbFile \/ AdbProc \/ AdbFinal
  \/ LocalDetect \/ LocalSub \/ LocalDir \/ LocalWalk \/ LocalWalkCheck
  \/ LocalFile \/ LocalProc \/ LocalFinal

Next ==
  \/ OnStart
  \/ DismissDialog
  \/ OnCancel
  \/ HandleUiEvent
  \/ Dispatch \/ DispatchFinally
  \/ AdbFindRoots \/ AdbEstimate \/ AdbProgress \/ AdbRoot \/ AdbSub \/ AdbDir
  \/ AdbFile \/ AdbProc \/ AdbFinal
  \/ LocalDetect \/ LocalSub \/ LocalDir \/ LocalWalk \/ LocalWalkCheck
  \/ LocalFile \/ LocalProc \/ LocalFinal

Spec == Init /\ [][Next]_vars

\* the threads are scheduled fairly and the Tk timer keeps firing
FairSpec == Spec /\ WF_vars(WorkerStep) /\ WF_vars(HandleUiEvent)

(***************************************************************************)
(* unique_destination_path on its own: any proposed path, any destination  *)
(***************************************************************************)
\* the proposed paths: a plain name, and a name that itself ends in "__dup1"
ProposedPaths ==
  { DestPath("WhatsApp Images", "IMG-1"), DupCandidate(DestPath("WhatsApp Images", "IMG-1"), 1) }

\* the paths a destination may hold before the call
PathUniverse ==
  ProposedPaths \cup { DestPath("WhatsApp Images", "IMG-2") }
  \cup { DupCandidate(q, i) : q \in ProposedPaths, i \in 1..MaxDup }

PathInit ==
  /\ InitApp
  /\ \E existing \in SUBSET PathUniverse : dest = [q \in existing |-> << "old", 0 >>]
  /\ \E q \in ProposedPaths :
       probe = [stage |-> 0, p |-> q, before |-> {}, first |-> q, second |-> q]

PathFrame ==
  /\ UNCHANGED << shared, widgets, worker, dest_made, src_present >>
  /\ UNCHANGED << runs, cancel_clicks, faults, done_puts, last_log, put_seq, last_put, attempts, scanned_ids, timed_ids, enumerated, passed, xfer_errors, calls, latch_at, latch_pc, got_seq, prev_latch >>

\* dst = unique_destination_path(p), and the file is created at dst
PathFirst ==
  /\ probe.stage = 0
  /\ probe' = [probe EXCEPT !.stage = 1, !.before = DOMAIN dest,
                            !.first = unique_destination_path(probe.p, dest)]
  /\ dest' = WriteFile(dest, unique_destination_path(probe.p, dest), << "new", 0 >>)
  /\ PathFrame

\* unique_destination_path(p) again
PathSecond ==
  /\ probe.stage = 1
  /\ probe' = [probe EXCEPT !.stage = 2, !.second = unique_destination_path(probe.p, dest)]
  /\ UNCHANGED dest
  /\ PathFrame

PathNext == PathFirst \/ PathSecond

PathSpec == PathInit /\ [][PathNext]_vars

(***************************************************************************)
(* _estimate_total_files_local on its own: directories of any size         *)
(***************************************************************************)
\* len(files) of one walked directory: none, one, about half the cap, the cap,
\* one above it
DirSizes == { 0, 1, EstimateCap \div 2, (EstimateCap \div 2) + 1, EstimateCap, EstimateCap + 1 }

RECURSIVE SumSeq(_)
SumSeq(sizes) == IF sizes = << >> THEN 0 ELSE Head(sizes) + SumSeq(Tail(sizes))

EstimateInit ==
  /\ InitApp
  /\ dest = [p \in {} |-> << >>]
  /\ \E n \in 0..MaxWalkDirs : \E sizes \in [1..n -> DirSizes] :
       probe = [stage |-> 0, sizes |-> sizes, total |-> 0, events |-> << >>]

\* total = self._estimate_total_files_local(...), then the progress events
EstimateApply ==
  /\ probe.stage = 0
  /\ probe' = [probe EXCEPT !.stage = 1,
                            !.total = EstimateFold(probe.sizes, 0),
                            !.events = ProgressEvents(EstimateFold(probe.sizes, 0))]
  /\ UNCHANGED dest
  /\ PathFrame

EstimateNext == EstimateApply

EstimateSpec == EstimateInit /\ [][EstimateNext]_vars

TypeOK ==
  /\ cancel_event \in BOOLEAN
  /\ scanned \in Nat /\ matched \in Nat /\ errors \in Nat
  /\ btn_start \in {"normal", "disabled"} /\ btn_cancel \in {"normal", "disabled"}

(***************************************************************************)
(* Properties                                                              *)
(***************************************************************************)
FATAL == "FATAL (ADB mode)"
Cancelled == "Cancelled by user."
Complete == "Export complete"

Mtime(i) == FileById(i).mt
BeforeStart(i) == DtLess(Mtime(i), args.start_dt)
AfterEnd(i) == DtLess(args.end_dt, Mtime(i))
Within(i) == DtLeq(args.start_dt, Mtime(i)) /\ DtLeq(Mtime(i), args.end_dt)

\* ids of the files written into the destination by the current run
WrittenNow == { dest[p][1] : p \in { q \in DOMAIN dest : dest[q][2] = runs } }

RECURSIVE SumLen(_)
SumLen(ss) == IF ss = << >> THEN 0 ELSE Len(Head(ss)) + SumLen(Tail(ss))

\* the files under the selected subfolders that exist, over every root the
\* device has (ADB) or under the media root as it was when the run started
\* (local)
WouldEnumerate ==
  IF args.src_mode = "adb"
    THEN SumLen([k \in 1..(Len(Candidates) * Len(args.subfolders)) |->
           LET c == Candidates[((k - 1) \div Len(args.subfolders)) + 1]
               sub == args.subfolders[((k - 1) % Len(args.subfolders)) + 1]
           IN IF RemoteRootExists(args.src_value, c) /\ RemoteDirExists(c, sub)
                THEN RemoteTree(c, sub) ELSE << >>])
    ELSE SumLen([k \in 1..Len(args.subfolders) |->
           IF LocalDirExists(args.subfolders[k])
             THEN Listing(Flatten(LocalTree(args.subfolders[k])), src_present \cup WrittenNow)
             ELSE << >>])

\* C1: in every run the worker puts exactly one "done" event, and it is the
\* last event the run puts: none while the worker is still running, one once
\* it has returned, and a "done" in the queue has nothing behind it.
C1_DoneOnceAndLast ==
  /\ WorkerAlive => done_puts = 0
  /\ wpc = "exited" => done_puts = 1
  /\ \A k \in 1..Len(ui_queue) : ui_queue[k].kind = "done" => k = Len(ui_queue)

C1_Witness ==
  /\ wpc = "exited" /\ done_puts = 1 /\ last_log = FATAL
  /\ ui_queue # << >> /\ ui_queue[Len(ui_queue)].kind = "done"

\* C2: a file whose modification time is strictly before start or strictly
\* after end is never transferred, and the exported counter counts only files
\* inside the range; in ADB and in local mode.
C2_OutOfRangeNotTransferred ==
  /\ \A i \in FileIds : (BeforeStart(i) \/ AfterEnd(i)) => attempts[i] = 0
  /\ \A i \in WrittenNow : ~BeforeStart(i) /\ ~AfterEnd(i)
  /\ matched <= Cardinality({ i \in scanned_ids : ~BeforeStart(i) /\ ~AfterEnd(i) })

C2_Witness ==
  /\ \E i \in timed_ids : AfterEnd(i) /\ attempts[i] = 0
  /\ \E i \in timed_ids : BeforeStart(i) /\ attempts[i] = 0

\* C3 as stated: every scanned file whose modification time lies in
\* [start, end] has had exactly one transfer attempt.
C3_Original ==
  \A i \in scanned_ids : Within(i) => attempts[i] = 1

\* C3 as amended: every scanned file whose modification time was read and lies
\* in [start, end], bounds included, has had exactly one transfer attempt, and
\* no file has more than one.
C3_OneAttemptWhenTimed ==
  /\ \A i \in FileIds : attempts[i] <= 1
  /\ \A i \in timed_ids : Within(i) => attempts[i] = 1

C3_Witness ==
  /\ \E i \in timed_ids : Mtime(i) = args.end_dt /\ attempts[i] = 1
  /\ \E i \in timed_ids : Mtime(i) = args.start_dt /\ attempts[i] = 1
  /\ xfer_errors = 1

\* C4: no step changes or removes a file that is already in the destination,
\* and a file written under a "__dup<i>" name has the name without that marker,
\* and every lower index, already taken.
C4_NeverOverwrites ==
  [][ /\ \A p \in DOMAIN dest : p \in DOMAIN dest' /\ dest'[p] = dest[p]
      /\ \A p \in (DOMAIN dest') \ (DOMAIN dest) :
           p.dups # << >> =>
             /\ [p EXCEPT !.dups = SubSeq(@, 1, Len(@) - 1)] \in DOMAIN dest
             /\ \A j \in 1..(p.dups[Len(p.dups)] - 1) :
                  [p EXCEPT !.dups = Append(SubSeq(@, 1, Len(@) - 1), j)] \in DOMAIN dest
    ]_vars

C4_Witness ==
  /\ runs = 2
  /\ \E p \in DOMAIN dest : p.dups = << >> /\ dest[p][2] = 1
  /\ \E p \in DOMAIN dest : p.dups = << 1 >> /\ dest[p][2] = 1
  /\ \E p \in DOMAIN dest : p.dups = << 2 >> /\ dest[p][2] = 2

\* C5: a run that has returned, was not cancelled and did not end FATAL has
\* counted every file its listings returned; when no backend call failed that
\* is every file under the selected subfolders that exist.
C5_ScannedAllEnumerated ==
  (wpc = "exited" /\ ~cancel_event /\ last_log # FATAL) =>
     /\ scanned = enumerated
     /\ scanned = Cardinality(scanned_ids)
     /\ faults = 0 => scanned = WouldEnumerate

C5_Witness ==
  /\ wpc = "exited" /\ ~cancel_event /\ last_log = Complete
  /\ scanned = 4 /\ matched = 1 /\ errors = 1

\* C6: exported + errors of failed transfers <= scanned files that passed the
\* date filter, and scanned >= exported, in every state.
C6_CounterInvariant ==
  /\ matched + xfer_errors <= passed
  /\ scanned >= matched

C6_Witness == xfer_errors = 1 /\ matched = 1 /\ passed = 2 /\ scanned > passed

\* C7 as stated, for a latch set after at least one file was scanned and while
\* the worker is still inside its loops: no "scanned" event above N+1, the
\* worker ends with the "Cancelled by user." log, and "done" is the last event.
C7_Original ==
  (latch_at >= 1 /\ latch_at < WouldEnumerate /\ latch_pc \notin {"a_final", "l_final", "finally"}) =>
     /\ \A k \in 1..Len(ui_queue) :
          ui_queue[k].kind = "scanned" => ui_queue[k].n <= latch_at + 1
     /\ scanned <= latch_at + 1
     /\ wpc = "exited" => last_log = Cancelled /\ done_puts = 1

\* C8 as stated: once a listing has been made, a run that found a media root
\* and is not cancelled visits everything, so it ends with "Export complete"
\* and has scanned every file its listings returned.
C8_Original ==
  (wpc = "exited" /\ ~cancel_event /\ calls.list >= 1) =>
     last_log = Complete /\ scanned = enumerated

\* C9: a Start click on a form with source type ADB and mode "move" opens the
\* error dialog and leaves the shared state, the worker and the backend call
\* counts as they were.
C9_AdbMoveRejected ==
  [][ \A form \in Forms :
        (form.src_mode = "adb" /\ form.mode = "move"
           /\ (OnStartRejected(form) \/ OnStartAccepted(form)))
        => (msgbox' # "" /\ UNCHANGED << shared, worker, calls, runs, btn_start, dest, src_present >>)
    ]_vars

C9_Witness ==
  /\ msgbox = "Move mode is not supported in USB Device (ADB) mode. Use Copy."
  /\ wpc = "none" /\ calls = NoCalls /\ ui_queue = << >>

\* C10: the log box never holds more than one summary line, a summary line
\* carries the counters of a worker that has returned, and every started run
\* leads to its summary line being in the log box.
SummaryLines == { l \in BagToSet(txt_log) : l.msg = "Finished." }

C10_SummaryAlwaysWritten ==
  /\ [](/\ \A l \in SummaryLines :
             /\ CopiesIn(l, txt_log) = 1
             /\ l.vals = << scanned, matched, errors >>
             /\ wpc = "exited"
        /\ Cardinality(SummaryLines) <= 1)
  /\ [](btn_start = "disabled" => <>(Cardinality(SummaryLines) = 1))

C10_Witness ==
  /\ Cardinality(SummaryLines) = 1 /\ cancel_event
  /\ \E l \in SummaryLines : l.vals[1] >= 1 /\ l.vals[3] = 1

\* C11: the consumer handles the events of a run in the order the worker put
\* them (the queue always holds the events after the last handled one, in
\* order, and each handled event is the successor of the one before), and
\* within a run no "scanned", "matched" or "errors" event carries a payload
\* lower than an earlier event of the same kind.
C11_InOrderAndMonotonic ==
  /\ [](\A k \in 1..Len(ui_queue) : ui_queue[k].seq = got_seq + k)
  /\ [][ /\ (runs' = runs /\ got_seq' # got_seq) => got_seq' = got_seq + 1
         /\ runs' = runs =>
              \A k \in (Len(ui_queue) + 1)..Len(ui_queue') :
                 ui_queue'[k].kind \in CounterKinds =>
                   /\ ui_queue'[k].n >= last_put[ui_queue'[k].kind]
                   /\ \A j \in (Len(ui_queue) + 1)..(k - 1) :
                        ui_queue'[j].kind = ui_queue'[k].kind => ui_queue'[j].n <= ui_queue'[k].n
    ]_vars

C11_Witness ==
  /\ got_seq >= 3 /\ Len(ui_queue) >= 2
  /\ last_put["scanned"] >= 2 /\ last_put["matched"] = 1 /\ last_put["errors"] = 1

\* the local files under the subfolders of the current run whose modification
\* time lies in [start_dt, end_dt]
LocalInRange ==
  { f \in LocalFiles : /\ \E k \in 1..Len(args.subfolders) :
                            f \in SeqToSet(Flatten(LocalTree(args.subfolders[k])))
                       /\ Within(f.id) }

\* C12: a file written without a "__dup" marker sits at its path below its
\* media root (directory and name), and after a first local run into the empty
\* destination that was not cancelled and had no failure, the destination
\* holds exactly the in-range files of the selected subfolders, each at that
\* path.
C12_MirrorsStructure ==
  /\ \A p \in DOMAIN dest :
       p.dups = << >> => p.dir = FileById(dest[p][1]).dir /\ p.stem = FileById(dest[p][1]).stem
  /\ (wpc = "exited" /\ args.src_mode = "local" /\ runs = 1
        /\ ~cancel_event /\ errors = 0 /\ faults = 0) =>
       { << p, dest[p][1] >> : p \in DOMAIN dest }
         = { << [dir |-> f.dir, stem |-> f.stem, dups |-> << >>], f.id >> : f \in LocalInRange }

C12_Witness ==
  /\ wpc = "exited" /\ args.src_mode = "local" /\ runs = 1
  /\ ~cancel_event /\ errors = 0 /\ faults = 0
  /\ Cardinality(DOMAIN dest) = 2
  /\ \E p \in DOMAIN dest : p.dir = "WhatsApp Images/Sent"
  /\ \E p \in DOMAIN dest : p.dir = "WhatsApp Images"

\* the "__dup" index of a result of unique_destination_path(p), 0 for p itself
DupIndex(result, p) == IF result = p THEN 0 ELSE result.dups[Len(result.dups)]

\* C13: for any proposed path and any destination, the path returned does not
\* exist; once it is created, a second call returns another path, which does
\* not exist either, is not the proposed path when that exists, and carries a
\* "__dup" index above the first result's and above every index taken
\* consecutively from 1.
C13_UniqueTwice ==
  /\ probe.stage >= 1 =>
       /\ probe.first \notin probe.before
       /\ probe.p \in probe.before => probe.first # probe.p
       /\ probe.first = probe.p
            \/ \E i \in 1..(MaxDup + 2) : probe.first = DupCandidate(probe.p, i)
  /\ probe.stage = 2 =>
       /\ probe.second # probe.first
       /\ probe.second \notin probe.before \cup {probe.first}
       /\ probe.second # probe.p
       /\ \E i \in 1..(MaxDup + 2) : probe.second = DupCandidate(probe.p, i)
       /\ DupIndex(probe.second, probe.p) > DupIndex(probe.first, probe.p)
       /\ \A j \in 1..(DupIndex(probe.second, probe.p) - 1) :
            DupCandidate(probe.p, j) \in probe.before \cup {probe.first}

C13_Witness ==
  /\ probe.stage = 2
  /\ probe.p \in probe.before /\ DupCandidate(probe.p, 1) \in probe.before
  /\ DupCandidate(probe.p, 3) \in probe.before
  /\ probe.first = DupCandidate(probe.p, 2)
  /\ probe.second = DupCandidate(probe.p, 4)

\* C14 as stated: once the latch is set and root discovery is over, a worker
\* that is still running makes no further enumeration call, not even one that
\* succeeds: no existence probe, no file count, no listing and no walk step.
C14_Original ==
  [][ (cancel_event /\ WorkerAlive /\ wpc # "a_find_roots" /\ runs' = runs /\ faults' = faults) =>
        /\ calls'.exists = calls.exists
        /\ calls'.count = calls.count
        /\ calls'.list = calls.list
    ]_vars

\* the last two events on the queue are ("errors", n) and a "log"
EndsWithError(q, n) ==
  /\ Len(q) >= 2
  /\ q[Len(q) - 1].kind = "errors" /\ q[Len(q) - 1].n = n
  /\ q[Len(q)].kind = "log"

\* C15: a step in which the modification-time query of a file fails (the file
\* is counted as scanned and its time is not read) or its transfer fails adds
\* exactly one to errors, puts an "errors" event followed by a "log" event,
\* leaves exported and the destination as they were, is the only processing
\* of that file, makes no transfer call in the first case and exactly one in
\* the second, and leaves the worker at the head of the file loop with the
\* next file.
C15_ItemFailure ==
  [][ /\ (scanned' = scanned + 1 /\ timed_ids' = timed_ids) =>
           /\ errors' = errors + 1 /\ matched' = matched
           /\ EndsWithError(ui_queue', errors + 1)
           /\ files[fi].id \notin scanned_ids
           /\ calls'.transfer = calls.transfer /\ attempts' = attempts
           /\ dest' = dest /\ src_present' = src_present
           /\ wpc' \in {"a_file", "l_file"} /\ fi' = fi + 1
      /\ (xfer_errors' = xfer_errors + 1) =>
           /\ errors' = errors + 1 /\ matched' = matched
           /\ EndsWithError(ui_queue', errors + 1)
           /\ files[fi].id \notin scanned_ids
           /\ calls'.transfer = calls.transfer + 1
           /\ attempts' = [attempts EXCEPT ![files[fi].id] = 1]
           /\ dest' = dest /\ src_present' = src_present
           /\ wpc' \in {"a_file", "l_file"} /\ fi' = fi + 1
    ]_vars

C15_Witness ==
  /\ errors = 1 /\ calls.mtime > Cardinality(timed_ids)
  /\ lbl_errors = 1 /\ scanned >= 3 /\ matched >= 1
  /\ last_log = "Exported"

\* C16 as stated: a step in which the listing of an existing selected
\* subfolder fails (remote find, or a directory of the local walk) adds one to
\* errors, puts an "errors" event followed by a "log" event, and leaves the
\* worker in its loops.
C16_Original ==
  [][ (calls'.list = calls.list + 1 /\ faults' = faults + 1) =>
        /\ errors' = errors + 1
        /\ EndsWithError(ui_queue', errors + 1)
        /\ wpc' \in {"a_sub", "l_sub", "l_walk"}
    ]_vars

NoRootLog == "Tried: both well-known roots"

\* C17: in an ADB run on a device where neither well-known root exists, the
\* worker never gets past root discovery: no file count, listing,
\* modification-time or transfer call is made, no "scanned" or "matched" event
\* is put, scanned and exported stay 0, and when no probe failed the last log
\* is the diagnostic of the missing media folder, followed only by "done".
C17_NoRootNoScan ==
  (args.src_mode = "adb" /\ \A c \in 1..Len(Candidates) : ~RemoteRootExists(args.src_value, Candidates[c])) =>
     /\ wpc \in {"dispatch", "a_find_roots", "finally", "exited"}
     /\ calls.count = 0 /\ calls.list = 0 /\ calls.mtime = 0 /\ calls.transfer = 0
     /\ scanned = 0 /\ matched = 0
     /\ last_put["scanned"] = 0 /\ last_put["matched"] = 0
     /\ \A k \in 1..Len(ui_queue) : ui_queue[k].kind \notin {"scanned", "matched"}
     /\ (wpc \in {"finally", "exited"} /\ faults = 0) => last_log = NoRootLog /\ errors = 0
     /\ wpc = "exited" => done_puts = 1

C17_Witness ==
  /\ args.src_mode = "adb" /\ args.src_value = "emulator-5556"
  /\ wpc = "exited" /\ last_log = NoRootLog /\ calls.exists = 2
  /\ ui_queue = << >> /\ btn_start = "normal"
  /\ BagToSet(txt_log) = { Line("Starting export..."),
                            Line("ERROR: Could not find WhatsApp Media folder on the device."),
                            Line(NoRootLog), [msg |-> "Finished.", vals |-> << 0, 0, 0 >>] }

\* C18 as stated: when the walked directories hold more files than the cap,
\* the estimate is the cap and the first progress event is
\* "progress_indeterminate".
C18_Original ==
  (probe.stage = 1 /\ SumSeq(probe.sizes) > EstimateCap) =>
     /\ probe.total = EstimateCap
     /\ probe.events[1].kind = "progress_indeterminate"

\* C19 as stated, for writes: a step that changes scanned, exported or errors
\* is a step of the worker thread.
C19_Original ==
  [][ (<< scanned, matched, errors >>' # << scanned, matched, errors >>) => WorkerStep ]_vars

\* C20: the latch goes from set to clear only in the handling of an accepted
\* Start, when no worker is running; a worker that is running with the latch
\* set has had Cancel clicked in its own run, so every worker begins with the
\* latch clear and the cancellation of one run does not reach the next.
C20_LatchClearedOnlyAtStart ==
  /\ []((cancel_event /\ WorkerAlive) => cancel_clicks >= 1)
  /\ []((wpc = "dispatch" /\ cancel_clicks = 0) => ~cancel_event)
  /\ [][ (cancel_event /\ ~cancel_event') =>
           /\ ~WorkerAlive
           /\ runs' = runs + 1 /\ wpc' = "dispatch" /\ btn_start = "normal"
    ]_vars

C20_Witness ==
  /\ runs = 2 /\ prev_latch /\ ~cancel_event /\ cancel_clicks = 0
  /\ wpc = "exited" /\ last_log = Complete /\ scanned >= 3

\* C21: every started run terminates: from the moment Start has disabled the
\* button, the worker eventually returns, having put its "done" event, in ADB
\* and in local mode, cancelled or not, whatever calls fail.
C21_RunTerminates ==
  [](btn_start = "disabled" => <>(wpc = "exited" /\ done_puts = 1))

C21_Witness ==
  /\ wpc = "exited" /\ done_puts = 1 /\ args.src_mode = "local"
  /\ cancel_event /\ last_log = Cancelled /\ errors = 1 /\ scanned = 2

\* the modification time of file i falls on a date from the start date to the
\* end date of the current run, at any time of day
OnRequestedDates(i) == DtLeq(args.start_dt, Mtime(i)) /\ Mtime(i)[1] <= args.end_dt[1]

\* C22 as stated: every scanned file whose modification time was read and
\* falls on a requested date, the whole end date included, has been handed to
\* a transfer.
C22_Original ==
  \A i \in timed_ids : OnRequestedDates(i) => attempts[i] = 1

\* C23: while a worker is running, or an event of its run is still on the
\* queue, Start is disabled; a run is started, and a counter is lowered, only
\* when no worker is running and the queue is empty, the earlier run (if any)
\* having put its "done".
C23_OneWorkerAtATime ==
  /\ []((WorkerAlive \/ ui_queue # << >>) => btn_start = "disabled")
  /\ [][ /\ runs' # runs =>
              /\ ~WorkerAlive /\ ui_queue = << >>
              /\ runs = 0 \/ (done_puts = 1 /\ got_seq = put_seq)
         /\ (scanned' < scanned \/ matched' < matched \/ errors' < errors) =>
              ~WorkerAlive /\ ui_queue = << >>
    ]_vars

C23_Witness ==
  /\ runs = 2 /\ WorkerAlive /\ btn_start = "disabled" /\ btn_cancel = "normal"
  /\ scanned = 1 /\ lbl_scanned >= 2
  /\ \E p \in DOMAIN dest : dest[p][2] = 1

\* C24: when the closing log of a run is "Export complete", the latch was not
\* set before that log was put, every enumerated file was scanned, and with no
\* fault every file under every existing selected subfolder was scanned.
C24_CompleteMeansNothingSkipped ==
  last_log = Complete =>
     /\ cancel_event => latch_pc = "finally"
     /\ scanned = enumerated
     /\ scanned = Cardinality(scanned_ids)
     /\ faults = 0 => scanned = WouldEnumerate

C24_Witness ==
  /\ last_log = Complete /\ wpc = "exited" /\ cancel_event /\ latch_pc = "finally"
  /\ scanned = 4 /\ enumerated = 4 /\ faults = 0

\* C25: no step of an ADB run or of a copy run changes the set of source
\* files; a step that changes it belongs to a local move run, removes exactly
\* the file being processed, whose time lies in the range, writes that file
\* into the destination and counts it as exported; a step that counts an error
\* leaves the source files alone.
C25_SourceFrame ==
  [][ /\ (args.src_mode = "adb" \/ args.mode = "copy") => src_present' = src_present
      /\ errors' > errors => src_present' = src_present
      /\ src_present' # src_present =>
            /\ args.src_mode = "local" /\ args.mode = "move" /\ args' = args
            /\ wpc = "l_proc"
            /\ files[fi].id \in src_present
            /\ src_present' = src_present \ {files[fi].id}
            /\ Within(files[fi].id)
            /\ matched' = matched + 1 /\ errors' = errors
            /\ \E p \in DOMAIN dest' \ DOMAIN dest : dest'[p] = << files[fi].id, runs >>
    ]_vars

C25_Witness ==
  /\ args.src_mode = "local" /\ args.mode = "move" /\ wpc = "exited" /\ runs = 1
  /\ "l1" \notin src_present /\ attempts["l1"] = 1
  /\ "l2" \in src_present /\ "l2" \in timed_ids /\ attempts["l2"] = 0
  /\ "l3" \in src_present /\ attempts["l3"] = 1 /\ xfer_errors = 1
  /\ matched = 1 /\ errors = 1

====
